---- MODULE Spec2Model ----
(***************************************************************************)
(* Model of scripts/lib/hn_search.py (search_hn, parse_hn_response) and of *)
(* scripts/lib/ui.py (Spinner, ProgressDisplay).                           *)
(*                                                                         *)
(* Python values are tagged records [t, v, s]: t is the Python type        *)
(* ("absent" = key not in the dict, "none" = None, "int", "big" = an int   *)
(* beyond 32 bits, written 10^v, "str"), v the integer and s the string,   *)
(* a sequence of characters.                                               *)
(***************************************************************************)
EXTENDS Integers, Sequences, FiniteSets, TLC

\* ------------------------------------------------------------------------
\* Bounds of the model
\* ------------------------------------------------------------------------
MaxHits == 2
MaxCalls == 2
MaxTasks == 2
MaxFrames == 1

\* ------------------------------------------------------------------------
\* State
\* ------------------------------------------------------------------------
\* search client (hn_search.py)
\* payload    the response a caller, a mock or the endpoint supplies
\* hn_pc      start, searched (search_hn returned), raised, parsed
\* request    the query parameters of the GET, gets: the calls of http.get,
\*            got: how the call of http.get ended
\* hn_log     the lines search_hn wrote to sys.stderr
\* response   what search_hn returned, then the argument of the parse
\* search_exc the exception that left search_hn, parsed: [exc, items] of
\*            parse_hn_response
\* display (ui.py)
\* IS_TTY     sys.stderr.isatty() at import
\* spinners   the Spinner objects made so far, in order of construction
\* tasks      the threads made by Spinner.start, in order of creation;
\*            after_stop counts the frames a thread wrote since its spinner
\*            was last stopped
\* pd_spinner ProgressDisplay.spinner: 0 for None, else an index of spinners
\* err        the texts written to sys.stderr, one per write, in order
\* main       the owning thread: idle, or inside Thread.join of Spinner.stop
\* calls      the number of calls made by the owning thread
\* last_call  the method called last; started: the phases started so far
VARIABLES payload, hn_pc, request, gets, got, hn_log, response, search_exc, parsed
VARIABLES IS_TTY, spinners, tasks, pd_spinner, err, main, calls, last_call, started

hn_vars == <<payload, hn_pc, request, gets, got, hn_log, response, search_exc, parsed>>
ui_vars == <<IS_TTY, spinners, tasks, pd_spinner, err, main, calls, last_call, started>>
vars == <<payload, hn_pc, request, gets, got, hn_log, response, search_exc, parsed,
          IS_TTY, spinners, tasks, pd_spinner, err, main, calls, last_call, started>>

\* sys.stderr.write(text) on the stream out
Write(out, text) == Append(out, text)
NoOutput == <<>>

\* the owning thread is in no call
Idle == [pc |-> "idle", s |-> 0, final |-> <<>>, next |-> "return", msg |-> <<>>, color |-> "", joined |-> "none"]

\* ------------------------------------------------------------------------
\* Python values
\* ------------------------------------------------------------------------
Absent == [t |-> "absent", v |-> 0, s |-> <<>>]
None == [t |-> "none", v |-> 0, s |-> <<>>]
PyInt(n) == [t |-> "int", v |-> n, s |-> <<>>]
PyBig(e) == [t |-> "big", v |-> e, s |-> <<>>]
PyStr(str) == [t |-> "str", v |-> 0, s |-> str]

\* bool(x)
Truthy(x) ==
    CASE x.t = "absent" -> FALSE
      [] x.t = "none" -> FALSE
      [] x.t = "int" -> x.v # 0
      [] x.t = "big" -> TRUE
      [] x.t = "str" -> Len(x.s) > 0

\* a or b
PyOr(a, b) == IF Truthy(a) THEN a ELSE b

\* dict.get(key) and dict.get(key, default)
Get(d, key) == IF d[key].t = "absent" THEN None ELSE d[key]
GetDefault(d, key, default) == IF d[key].t = "absent" THEN default ELSE d[key]

\* s[:n]
Take(str, n) == SubSeq(str, 1, IF Len(str) < n THEN Len(str) ELSE n)

\* str(n) for n >= 0: the decimal digits
RECURSIVE Decimal(_)
Decimal(n) ==
    LET digit == <<"0", "1", "2", "3", "4", "5", "6", "7", "8", "9">>
    IN IF n < 10 THEN <<digit[n + 1]>> ELSE Decimal(n \div 10) \o <<digit[(n % 10) + 1]>>

\* f"{x}" of a value
Format(x) ==
    CASE x.t = "str" -> x.s
      [] x.t = "int" -> Decimal(x.v)
      [] x.t = "none" -> <<"N", "o", "n", "e">>
      [] OTHER -> <<"1", "e">> \o Decimal(x.v)

\* ------------------------------------------------------------------------
\* hn_search.py: constants
\* ------------------------------------------------------------------------
HN_API_URL == <<"https://hn.algolia.com/api/v1/search_by_date">>
HN_ITEM_URL == <<"https://news.ycombinator.com/item?id=">>
CAPTION == <<"Hacker News discussion about ">>
RELEVANCE == "0.7"
SECONDS_PER_DAY == 86400
CAPTION_CHARS == 50
GET_TIMEOUT == 30

\* DEPTH_CONFIG.get(depth, DEPTH_CONFIG["default"]): (min_results, max_results)
DEPTH_CONFIG(depth) ==
    CASE depth = "quick" -> <<8, 12>>
      [] depth = "deep" -> <<50, 70>>
      [] OTHER -> <<20, 30>>

\* ------------------------------------------------------------------------
\* Calendar arithmetic of datetime (proleptic Gregorian, local zone = UTC)
\* ------------------------------------------------------------------------
\* days since 1970-01-01 -> [y, m, d]
CivilFromDays(days) ==
    LET z == days + 719468
        era == z \div 146097
        doe == z - era * 146097
        yoe == (doe - doe \div 1460 + doe \div 36524 - doe \div 146096) \div 365
        doy == doe - (365 * yoe + yoe \div 4 - yoe \div 100)
        mp == (5 * doy + 2) \div 153
        d == doy - (153 * mp + 2) \div 5 + 1
        m == IF mp < 10 THEN mp + 3 ELSE mp - 9
        y == yoe + era * 400 + (IF m <= 2 THEN 1 ELSE 0)
    IN [y |-> y, m |-> m, d |-> d]

\* [y, m, d] -> days since 1970-01-01
DaysFromCivil(y, m, d) ==
    LET yy == IF m <= 2 THEN y - 1 ELSE y
        era == yy \div 400
        yoe == yy - era * 400
        doy == (153 * (IF m > 2 THEN m - 3 ELSE m + 9) + 2) \div 5 + d - 1
        doe == yoe * 365 + yoe \div 4 - yoe \div 100 + doy
    IN era * 146097 + doe - 719468

\* digits left-padded with zeros to width w
PadTo(digits, w) ==
    [i \in 1..(IF Len(digits) >= w THEN Len(digits) ELSE w) |->
        IF Len(digits) >= w THEN digits[i]
        ELSE IF i <= w - Len(digits) THEN "0" ELSE digits[i - (w - Len(digits))]]

\* strftime("%Y-%m-%d")
StrfDate(c) ==
    PadTo(Decimal(c.y), 4) \o <<"-">> \o PadTo(Decimal(c.m), 2) \o <<"-">> \o PadTo(Decimal(c.d), 2)

\* ------------------------------------------------------------------------
\* hn_search.py: _timestamp_to_date and parse_hn_response
\* ------------------------------------------------------------------------
\* datetime.fromtimestamp(ts).strftime("%Y-%m-%d"): [exc, date].
\* A str is no number (TypeError); an int beyond the platform time_t
\* (10^19 and more) raises OverflowError; an int whose year is beyond 9999
\* raises ValueError (OSError where localtime itself fails).
_timestamp_to_date(ts) ==
    CASE ts.t = "int" ->
            [exc |-> "none", date |-> PyStr(StrfDate(CivilFromDays(ts.v \div SECONDS_PER_DAY)))]
      [] ts.t = "big" ->
            [exc |-> IF ts.v >= 19 THEN "OverflowError" ELSE "ValueError", date |-> None]
      [] OTHER -> [exc |-> "TypeError", date |-> None]

\* the except clause of the date parse: (ValueError, OSError)
DateExcCaught(exc) == exc \in {"ValueError", "OSError"}

\* the date block: [exc, date]
ParseDate(created_at) ==
    IF Truthy(created_at)
    THEN LET r == _timestamp_to_date(created_at)
         IN IF r.exc = "none" \/ DateExcCaught(r.exc)
            THEN [exc |-> "none", date |-> r.date]
            ELSE [exc |-> r.exc, date |-> None]
    ELSE [exc |-> "none", date |-> None]

\* the skip test of the loop
SkipHit(hit) == ~Truthy(Get(hit, "title")) /\ ~Truthy(Get(hit, "story_title"))

\* mutant of ItemId: the index of enumerate without the + 1
ItemId_FromZero(i) == <<"H", "N">> \o Decimal(i)

\* f"HN{i + 1}" for the 0-based index i of enumerate
ItemId(i) == <<"H", "N">> \o Decimal(i + 1)

\* hit.get('title', 'topic')[:50]: [exc, s]
CaptionTitle(hit) ==
    LET v == GetDefault(hit, "title", PyStr(<<"t", "o", "p", "i", "c">>))
    IN IF v.t = "str"
       THEN [exc |-> "none", s |-> Take(v.s, CAPTION_CHARS)]
       ELSE [exc |-> "TypeError", s |-> <<>>]

\* one iteration of the loop for a hit that is not skipped: [exc, item]
BuildItem(i, hit) ==
    LET object_id == GetDefault(hit, "objectID", PyStr(<<>>))
        hn_url == PyStr(HN_ITEM_URL \o Format(object_id))
        story_url == PyOr(Get(hit, "url"), hn_url)
        d == ParseDate(Get(hit, "created_at_i"))
        cap == CaptionTitle(hit)
        exc == IF d.exc # "none" THEN d.exc ELSE cap.exc
    IN [exc |-> exc,
        item |-> [id |-> ItemId(i),
                  title |-> PyOr(PyOr(Get(hit, "title"), Get(hit, "story_title")), PyStr(<<>>)),
                  url |-> story_url,
                  hn_url |-> hn_url,
                  author |-> PyOr(Get(hit, "author"), PyStr(<<>>)),
                  date |-> d.date,
                  engagement |-> [score |-> Get(hit, "points"),
                                  num_comments |-> Get(hit, "num_comments")],
                  relevance |-> RELEVANCE,
                  why_relevant |-> CAPTION \o cap.s]]

\* the loop over enumerate(hits) from 0-based index i on: [exc, items]
RECURSIVE ParseLoop(_, _, _)
ParseLoop(hits, i, acc) ==
    IF i >= Len(hits) THEN [exc |-> "none", items |-> acc]
    ELSE IF SkipHit(hits[i + 1]) THEN ParseLoop(hits, i + 1, acc)
    ELSE LET b == BuildItem(i, hits[i + 1])
         IN IF b.exc # "none" THEN [exc |-> b.exc, items |-> <<>>]
            ELSE ParseLoop(hits, i + 1, Append(acc, b.item))

\* mutant of parse_hn_response: the error key is tested for truth, not for
\* presence
parse_hn_response_TruthyError(raw) ==
    IF Truthy(raw.error) THEN [exc |-> "none", items |-> <<>>]
    ELSE ParseLoop(raw.hits, 0, <<>>)

\* parse_hn_response(response): [exc, items]; exc # "none" is the exception
\* that leaves the function
parse_hn_response(raw) ==
    IF raw.error.t # "absent" THEN [exc |-> "none", items |-> <<>>]
    ELSE ParseLoop(raw.hits, 0, <<>>)

\* ------------------------------------------------------------------------
\* hn_search.py: search_hn
\* ------------------------------------------------------------------------

NoRequest == [url |-> <<>>, query |-> <<>>, tags |-> <<>>, numericFilters |-> <<>>, hitsPerPage |-> 0, timeout |-> 0]
NoResponse == [error |-> Absent, hits |-> <<>>]
NoResult == [exc |-> "none", items |-> <<>>]

\* datetime.strptime(date_str, "%Y-%m-%d") then int(dt.timestamp()): [exc, ts]
_date_to_timestamp(date_str) ==
    IF date_str.ok
    THEN [exc |-> "none", ts |-> DaysFromCivil(date_str.y, date_str.m, date_str.d) * SECONDS_PER_DAY]
    ELSE [exc |-> "ValueError", ts |-> 0]

\* the params dict of the query
BuildParams(topic, from_ts, to_ts, max_results) ==
    [url |-> HN_API_URL,
     query |-> topic,
     tags |-> <<"story">>,
     numericFilters |-> <<"created_at_i>=">> \o Decimal(from_ts) \o <<",created_at_i<=">> \o Decimal(to_ts),
     hitsPerPage |-> max_results,
     timeout |-> GET_TIMEOUT]

\* _log_error(msg)
_log_error(log, msg) == Append(log, <<"[HN] ERROR: ">> \o msg)

\* mutant of TryGet: the except Exception clause is missing
TryGet_NoCatchAll(outcome, log) ==
    CASE outcome.kind = "ok" ->
            [exc |-> "none", response |-> outcome.body, log |-> log]
      [] outcome.kind = "HTTPError" ->
            [exc |-> "none",
             response |-> [error |-> PyStr(outcome.msg), hits |-> <<>>],
             log |-> _log_error(log, <<"API error: ">> \o outcome.msg)]
      [] OTHER ->
            [exc |-> outcome.type, response |-> NoResponse, log |-> log]

\* the try block around http.get and its two except clauses, for one
\* outcome of http.get: [exc, response, log]
TryGet(outcome, log) ==
    CASE outcome.kind = "ok" ->
            [exc |-> "none", response |-> outcome.body, log |-> log]
      [] outcome.kind = "HTTPError" ->
            [exc |-> "none",
             response |-> [error |-> PyStr(outcome.msg), hits |-> <<>>],
             log |-> _log_error(log, <<"API error: ">> \o outcome.msg)]
      [] OTHER ->
            [exc |-> "none",
             response |-> [error |-> PyStr(outcome.msg), hits |-> <<>>],
             log |-> _log_error(log, <<outcome.type, ": ">> \o outcome.msg)]

\* search_hn(topic, from_date, to_date, depth, mock_response) where http.get,
\* if it is called, ends in outcome
search_hn(topic, from_date, to_date, depth, mock_response, outcome) ==
    /\ hn_pc = "start"
    /\ IF mock_response.t # "none"
       THEN /\ response' = mock_response.body
            /\ hn_pc' = "searched"
            /\ UNCHANGED <<request, gets, got, hn_log, search_exc>>
       ELSE LET max_results == DEPTH_CONFIG(depth)[2]
                f == _date_to_timestamp(from_date)
                u == _date_to_timestamp(to_date)
            IN IF f.exc # "none" \/ u.exc # "none"
               THEN /\ search_exc' = (IF f.exc # "none" THEN f.exc ELSE u.exc)
                    /\ hn_pc' = "raised"
                    /\ UNCHANGED <<request, gets, got, hn_log, response>>
               ELSE LET r == TryGet(outcome, hn_log)
                    IN /\ request' = BuildParams(topic, f.ts, u.ts + SECONDS_PER_DAY, max_results)
                       /\ gets' = gets + 1
                       /\ got' = outcome.kind
                       /\ hn_log' = r.log
                       /\ search_exc' = r.exc
                       /\ response' = r.response
                       /\ hn_pc' = (IF r.exc = "none" THEN "searched" ELSE "raised")
    /\ UNCHANGED ui_vars
    /\ UNCHANGED <<payload, parsed>>

\* the caller feeds the response of search_hn to parse_hn_response
ParseSearched ==
    /\ hn_pc = "searched"
    /\ parsed' = parse_hn_response(response)
    /\ hn_pc' = "parsed"
    /\ UNCHANGED ui_vars
    /\ UNCHANGED <<payload, request, gets, got, hn_log, response, search_exc>>

\* a caller hands a response of its own to parse_hn_response
ParseDirect ==
    /\ hn_pc = "start"
    /\ response' = payload
    /\ parsed' = parse_hn_response(payload)
    /\ hn_pc' = "parsed"
    /\ UNCHANGED ui_vars
    /\ UNCHANGED <<payload, request, gets, got, hn_log, search_exc>>

\* ------------------------------------------------------------------------
\* Inputs of the search client
\* ------------------------------------------------------------------------
LongTitle == [i \in 1..(CAPTION_CHARS + 1) |-> IF i <= CAPTION_CHARS THEN "x" ELSE "y"]

TitleValues == {Absent, None, PyStr(<<>>), PyStr(<<"A">>), PyStr(LongTitle)}
StoryTitleValues == {Absent, PyStr(<<>>), PyStr(<<"S">>)}
CreatedAtValues == {Absent, PyInt(1700000000), PyBig(12), PyBig(20), PyStr(<<"a", "b", "c">>)}

Hit(title, story_title, created_at_i, url) ==
    [title |-> title, story_title |-> story_title, url |-> url,
     objectID |-> PyStr(<<"4", "2">>), author |-> PyStr(<<"pg">>),
     created_at_i |-> created_at_i, points |-> PyInt(10), num_comments |-> Absent]

HitPool ==
    {Hit(t, st, c, Absent) : t \in TitleValues, st \in StoryTitleValues, c \in CreatedAtValues}

\* the hits of a search run: a few hits of each kind
SearchHitPool ==
    {Hit(PyStr(<<"A">>), Absent, PyInt(1700000000), PyStr(<<"u">>)),
     Hit(Absent, PyStr(<<"S">>), Absent, Absent),
     Hit(Absent, Absent, Absent, Absent),
     Hit(PyStr(<<"A">>), Absent, PyBig(20), Absent)}

SeqsUpTo(S, n) == UNION {[1..k -> S] : k \in 0..n}

Dates == {[ok |-> TRUE, y |-> 2024, m |-> 1, d |-> 1],
          [ok |-> TRUE, y |-> 2024, m |-> 1, d |-> 31],
          [ok |-> FALSE, y |-> 0, m |-> 0, d |-> 0]}
Depths == {"quick", "default", "deep", "bogus-depth"}
Topics == {<<"a", "i">>}

\* what http.get does: it returns the decoded body, raises http.HTTPError or
\* raises another exception (timeout, connection reset, undecodable body)
HttpOutcomes(body) ==
    {[kind |-> "ok", body |-> body, type |-> "", msg |-> <<>>],
     [kind |-> "HTTPError", body |-> NoResponse, type |-> "HTTPError", msg |-> <<"HTTP 500">>],
     [kind |-> "Exception", body |-> NoResponse, type |-> "TimeoutError", msg |-> <<"timed out">>]}

MockResponses(body) == {None, [t |-> "dict", body |-> body]}

HnInit(payloads) ==
    /\ payload \in payloads
    /\ hn_pc = "start"
    /\ request = NoRequest
    /\ gets = 0
    /\ got = "none"
    /\ hn_log = <<>>
    /\ response = NoResponse
    /\ search_exc = "none"
    /\ parsed = NoResult

\* the display is not in use
UiUnused ==
    /\ IS_TTY = FALSE
    /\ spinners = <<>>
    /\ tasks = <<>>
    /\ pd_spinner = 0
    /\ err = NoOutput
    /\ main = Idle
    /\ calls = 0
    /\ last_call = ""
    /\ started = {}

\* parse_hn_response on any response without an error key
InitParse == HnInit([error : {Absent}, hits : SeqsUpTo(HitPool, MaxHits)]) /\ UiUnused
NextParse == ParseDirect
SpecParse == InitParse /\ [][NextParse]_vars

\* search_hn, then parse_hn_response on what it returned
InitSearch == HnInit([error : {Absent, None, PyStr(<<"x">>)}, hits : SeqsUpTo(SearchHitPool, MaxHits)]) /\ UiUnused
NextSearch ==
    \/ \E topic \in Topics, from_date \in Dates, to_date \in Dates, depth \in Depths,
          mock_response \in MockResponses(payload), outcome \in HttpOutcomes(payload) :
            search_hn(topic, from_date, to_date, depth, mock_response, outcome)
    \/ ParseSearched
    \/ ParseDirect
SpecSearch == InitSearch /\ [][NextSearch]_vars

\* ------------------------------------------------------------------------
\* ui.py: constants
\* ------------------------------------------------------------------------
YELLOW == "\\033[93m"
CYAN == "\\033[96m"
PURPLE == "\\033[95m"
RESET == "\\033[0m"

\* the message pools, each cut to its first entry (the choice is cosmetic)
REDDIT_MESSAGES == {"Diving into Reddit threads..."}
X_MESSAGES == {"Checking what X is buzzing about..."}
ENRICHING_MESSAGES == {"Getting the juicy details..."}
PROCESSING_MESSAGES == {"Crunching the data..."}

\* the ten glyphs of the animation, by name
SPINNER_FRAMES == <<"f0", "f1", "f2", "f3", "f4", "f5", "f6", "f7", "f8", "f9">>

\* "\r" + " " * 80 + "\r"
CLEAR_LINE == <<"\\r", "(80 spaces)", "\\r">>

\* Spinner.__init__
Spinner(message, color) ==
    [message |-> message, color |-> color, running |-> FALSE, thread |-> 0,
     frame_idx |-> 0, shown_static |-> FALSE]

\* Spinner.start on spinner s: [spinners, tasks, err]; "wait " stands for the
\* hourglass glyph of the static line
Spinner_start(sps, tks, out, s) ==
    IF IS_TTY
    THEN [spinners |-> [sps EXCEPT ![s].running = TRUE, ![s].thread = Len(tks) + 1],
          tasks |-> Append([t \in 1..Len(tks) |->
                               IF tks[t].spinner = s THEN [tks[t] EXCEPT !.after_stop = 0] ELSE tks[t]],
                           [spinner |-> s, pc |-> "check", tmp |-> 0, after_stop |-> 0]),
          err |-> out]
    ELSE IF ~sps[s].shown_static
         THEN [spinners |-> [sps EXCEPT ![s].running = TRUE, ![s].shown_static = TRUE],
               tasks |-> tks,
               err |-> Write(out, <<"wait ">> \o sps[s].message \o <<"\\n">>)]
         ELSE [spinners |-> [sps EXCEPT ![s].running = TRUE], tasks |-> tks, err |-> out]

\* Spinner.update on spinner s: [spinners, err]
Spinner_update(sps, out, s, message) ==
    [spinners |-> [sps EXCEPT ![s].message = message],
     err |-> IF ~IS_TTY /\ ~sps[s].shown_static
             THEN Write(out, <<"wait ">> \o message \o <<"\\n">>)
             ELSE out]

\* Spinner.stop, up to the join: self.running = False
Spinner_stop_flag(sps, s) == [sps EXCEPT ![s].running = FALSE]

\* Spinner.stop, after the join: the writes to the error stream; "done "
\* stands for the check mark
Spinner_stop_writes(out, final_message) ==
    LET cleared == IF IS_TTY THEN Write(out, CLEAR_LINE) ELSE out
    IN IF final_message # <<>>
       THEN Write(cleared, <<"done ">> \o final_message \o <<"\\n">>)
       ELSE cleared

\* ------------------------------------------------------------------------
\* ui.py: the calls of the owning thread
\* ------------------------------------------------------------------------
\* the owning thread enters a method
Call(name) ==
    /\ main.pc = "idle"
    /\ calls < MaxCalls
    /\ calls' = calls + 1
    /\ last_call' = name

\* what the calling method does once spinner.stop() has returned: it returns,
\* or (start_reddit_enrich) makes the next Spinner and starts it
AfterStop(sps, tks, out, next, msg, color) ==
    IF next = "return"
    THEN /\ spinners' = sps
         /\ tasks' = tks
         /\ err' = out
         /\ pd_spinner' = pd_spinner
    ELSE LET made == Append(sps, Spinner(msg, color))
             r == Spinner_start(made, tks, out, Len(made))
         IN /\ spinners' = r.spinners
            /\ tasks' = r.tasks
            /\ err' = r.err
            /\ pd_spinner' = Len(made)

\* Spinner.stop(final_message) on spinner s, called by a method that goes on
\* with next: without a thread the call runs to its end; with one the owning
\* thread sets the flag and waits in join
Spinner_stop(s, final_message, next, msg, color) ==
    IF spinners[s].thread # 0
    THEN /\ spinners' = Spinner_stop_flag(spinners, s)
         /\ main' = [pc |-> "join", s |-> s, final |-> final_message, next |-> next,
                     msg |-> msg, color |-> color, joined |-> "none"]
         /\ UNCHANGED <<tasks, err, pd_spinner>>
    ELSE /\ AfterStop(Spinner_stop_flag(spinners, s), tasks,
                      Spinner_stop_writes(err, final_message), next, msg, color)
         /\ main' = Idle

\* thread.join(timeout=0.2) returns because the thread has ended
JoinDone ==
    /\ main.pc = "join"
    /\ tasks[spinners[main.s].thread].pc = "done"
    /\ AfterStop(spinners, tasks, Spinner_stop_writes(err, main.final), main.next, main.msg, main.color)
    /\ main' = [Idle EXCEPT !.joined = "done"]
    /\ UNCHANGED hn_vars /\ UNCHANGED <<IS_TTY, calls, last_call, started>>

\* thread.join(timeout=0.2) returns because the 200 ms are over
JoinTimeout ==
    /\ main.pc = "join"
    /\ tasks[spinners[main.s].thread].pc # "done"
    /\ AfterStop(spinners, tasks, Spinner_stop_writes(err, main.final), main.next, main.msg, main.color)
    /\ main' = [Idle EXCEPT !.joined = "timeout"]
    /\ UNCHANGED hn_vars /\ UNCHANGED <<IS_TTY, calls, last_call, started>>

\* ------------------------------------------------------------------------
\* ui.py: Spinner._spin, one action per step of the thread
\* ------------------------------------------------------------------------
\* mutant of _spin_check: the loop does not test self.running
_spin_check_Forever(t) ==
    /\ t \in 1..Len(tasks)
    /\ tasks[t].pc = "check"
    /\ spinners[tasks[t].spinner].frame_idx < MaxFrames
    /\ tasks' = [tasks EXCEPT ![t].pc = "write"]
    /\ UNCHANGED hn_vars /\ UNCHANGED <<IS_TTY, spinners, pd_spinner, err, main, calls, last_call, started>>

\* time.sleep(0.08) of the last round, then the test of while self.running
_spin_check(t) ==
    /\ t \in 1..Len(tasks)
    /\ tasks[t].pc = "check"
    /\ IF spinners[tasks[t].spinner].running
       THEN /\ spinners[tasks[t].spinner].frame_idx < MaxFrames
            /\ tasks' = [tasks EXCEPT ![t].pc = "write"]
       ELSE tasks' = [tasks EXCEPT ![t].pc = "done"]
    /\ UNCHANGED hn_vars /\ UNCHANGED <<IS_TTY, spinners, pd_spinner, err, main, calls, last_call, started>>

\* the frame is chosen and written
_spin_write(t) ==
    /\ t \in 1..Len(tasks)
    /\ tasks[t].pc = "write"
    /\ LET sp == spinners[tasks[t].spinner]
           frame == SPINNER_FRAMES[(sp.frame_idx % Len(SPINNER_FRAMES)) + 1]
       IN /\ err' = Write(err, <<"\\r", sp.color, frame, RESET, " ">> \o sp.message \o <<"  ">>)
          /\ tasks' = [tasks EXCEPT ![t].pc = "load",
                                    ![t].after_stop = IF sp.running THEN @ ELSE @ + 1]
    /\ UNCHANGED hn_vars /\ UNCHANGED <<IS_TTY, spinners, pd_spinner, main, calls, last_call, started>>

\* self.frame_idx += 1: the read
_spin_load(t) ==
    /\ t \in 1..Len(tasks)
    /\ tasks[t].pc = "load"
    /\ tasks' = [tasks EXCEPT ![t].pc = "store", ![t].tmp = spinners[tasks[t].spinner].frame_idx]
    /\ UNCHANGED hn_vars /\ UNCHANGED <<IS_TTY, spinners, pd_spinner, err, main, calls, last_call, started>>

\* self.frame_idx += 1: the write
_spin_store(t) ==
    /\ t \in 1..Len(tasks)
    /\ tasks[t].pc = "store"
    /\ spinners' = [spinners EXCEPT ![tasks[t].spinner].frame_idx = tasks[t].tmp + 1]
    /\ tasks' = [tasks EXCEPT ![t].pc = "check"]
    /\ UNCHANGED hn_vars /\ UNCHANGED <<IS_TTY, pd_spinner, err, main, calls, last_call, started>>

_spin(t) == _spin_check(t) \/ _spin_write(t) \/ _spin_load(t) \/ _spin_store(t)

\* ------------------------------------------------------------------------
\* ui.py: Spinner, called by its owner
\* ------------------------------------------------------------------------
start(s) ==
    /\ Call("start")
    /\ IS_TTY => Len(tasks) < MaxTasks
    /\ LET r == Spinner_start(spinners, tasks, err, s)
       IN spinners' = r.spinners /\ tasks' = r.tasks /\ err' = r.err
    /\ main' = Idle
    /\ UNCHANGED hn_vars /\ UNCHANGED <<IS_TTY, pd_spinner, started>>

update(s, message) ==
    /\ Call("update")
    /\ LET r == Spinner_update(spinners, err, s, message)
       IN spinners' = r.spinners /\ err' = r.err
    /\ main' = Idle
    /\ UNCHANGED hn_vars /\ UNCHANGED <<IS_TTY, tasks, pd_spinner, started>>

stop(s, final_message) ==
    /\ Call("stop")
    /\ Spinner_stop(s, final_message, "return", <<>>, "")
    /\ UNCHANGED hn_vars /\ UNCHANGED <<IS_TTY, started>>

\* ------------------------------------------------------------------------
\* ui.py: ProgressDisplay
\* ------------------------------------------------------------------------
TOPIC == <<"ai">>

\* ProgressDisplay._show_banner: the writes
_show_banner(out) ==
    IF IS_TTY
    THEN Write(Write(out, <<"MINI_BANNER", "\\n">>), <<"Topic: ">> \o TOPIC \o <<"\\n\\n">>)
    ELSE Write(out, <<"/last30days - researching: ">> \o TOPIC \o <<"\\n">>)

\* self.spinner = Spinner(message, color); self.spinner.start()
NewSpinner(message, color) ==
    /\ IS_TTY => Len(tasks) < MaxTasks
    /\ AfterStop(spinners, tasks, err, "start", message, color)
    /\ main' = Idle

start_reddit ==
    /\ Call("start_reddit")
    /\ \E msg \in REDDIT_MESSAGES : NewSpinner(<<YELLOW, "Reddit", RESET, " ", msg>>, YELLOW)
    /\ started' = started \cup {"reddit"}
    /\ UNCHANGED hn_vars /\ UNCHANGED IS_TTY

end_reddit(count) ==
    /\ Call("end_reddit")
    /\ IF pd_spinner # 0
       THEN Spinner_stop(pd_spinner, <<YELLOW, "Reddit", RESET, " Found ">> \o Decimal(count) \o <<" threads">>,
                         "return", <<>>, "")
       ELSE UNCHANGED <<spinners, tasks, err, pd_spinner, main>>
    /\ UNCHANGED hn_vars /\ UNCHANGED <<IS_TTY, started>>

start_reddit_enrich(current, total) ==
    /\ Call("start_reddit_enrich")
    /\ IS_TTY => Len(tasks) < MaxTasks
    /\ \E msg \in ENRICHING_MESSAGES :
          LET message == <<YELLOW, "Reddit", RESET, " [">> \o Decimal(current) \o <<"/">>
                            \o Decimal(total) \o <<"] ", msg>>
          IN IF pd_spinner # 0
             THEN Spinner_stop(pd_spinner, <<>>, "start", message, YELLOW)
             ELSE NewSpinner(message, YELLOW)
    /\ started' = started \cup {"reddit_enrich"}
    /\ UNCHANGED hn_vars /\ UNCHANGED IS_TTY

update_reddit_enrich(current, total) ==
    /\ Call("update_reddit_enrich")
    /\ IF pd_spinner # 0
       THEN \E msg \in ENRICHING_MESSAGES :
               LET r == Spinner_update(spinners, err, pd_spinner,
                                       <<YELLOW, "Reddit", RESET, " [">> \o Decimal(current) \o <<"/">>
                                          \o Decimal(total) \o <<"] ", msg>>)
               IN spinners' = r.spinners /\ err' = r.err
       ELSE UNCHANGED <<spinners, err>>
    /\ main' = Idle
    /\ UNCHANGED hn_vars /\ UNCHANGED <<IS_TTY, tasks, pd_spinner, started>>

end_reddit_enrich ==
    /\ Call("end_reddit_enrich")
    /\ IF pd_spinner # 0
       THEN Spinner_stop(pd_spinner, <<YELLOW, "Reddit", RESET, " Enriched with engagement data">>,
                         "return", <<>>, "")
       ELSE UNCHANGED <<spinners, tasks, err, pd_spinner, main>>
    /\ UNCHANGED hn_vars /\ UNCHANGED <<IS_TTY, started>>

start_x ==
    /\ Call("start_x")
    /\ \E msg \in X_MESSAGES : NewSpinner(<<CYAN, "X", RESET, " ", msg>>, CYAN)
    /\ started' = started \cup {"x"}
    /\ UNCHANGED hn_vars /\ UNCHANGED IS_TTY

\* mutant of end_x: the completion line is written without a spinner too
end_x_Unguarded(count) ==
    /\ Call("end_x")
    /\ IF pd_spinner # 0
       THEN Spinner_stop(pd_spinner, <<CYAN, "X", RESET, " Found ">> \o Decimal(count) \o <<" posts">>,
                         "return", <<>>, "")
       ELSE /\ err' = Spinner_stop_writes(err, <<CYAN, "X", RESET, " Found ">> \o Decimal(count) \o <<" posts">>)
            /\ UNCHANGED <<spinners, tasks, pd_spinner, main>>
    /\ UNCHANGED hn_vars /\ UNCHANGED <<IS_TTY, started>>

end_x(count) ==
    /\ Call("end_x")
    /\ IF pd_spinner # 0
       THEN Spinner_stop(pd_spinner, <<CYAN, "X", RESET, " Found ">> \o Decimal(count) \o <<" posts">>,
                         "return", <<>>, "")
       ELSE UNCHANGED <<spinners, tasks, err, pd_spinner, main>>
    /\ UNCHANGED hn_vars /\ UNCHANGED <<IS_TTY, started>>

start_processing ==
    /\ Call("start_processing")
    /\ \E msg \in PROCESSING_MESSAGES : NewSpinner(<<PURPLE, "Processing", RESET, " ", msg>>, PURPLE)
    /\ started' = started \cup {"processing"}
    /\ UNCHANGED hn_vars /\ UNCHANGED IS_TTY

end_processing ==
    /\ Call("end_processing")
    /\ IF pd_spinner # 0
       THEN Spinner_stop(pd_spinner, <<>>, "return", <<>>, "")
       ELSE UNCHANGED <<spinners, tasks, err, pd_spinner, main>>
    /\ UNCHANGED hn_vars /\ UNCHANGED <<IS_TTY, started>>

\* ------------------------------------------------------------------------
\* Specifications of the display
\* ------------------------------------------------------------------------
HnUnused ==
    /\ payload = NoResponse
    /\ hn_pc = "start"
    /\ request = NoRequest
    /\ gets = 0
    /\ got = "none"
    /\ hn_log = <<>>
    /\ response = NoResponse
    /\ search_exc = "none"
    /\ parsed = NoResult

UpdateMessages == {<<"Halfway">>}
FinalMessages == {<<>>, <<"Done">>}

\* one Spinner("Working"), driven by its owner in any order
InitSpinner ==
    /\ IS_TTY \in BOOLEAN
    /\ spinners = <<Spinner(<<"Working">>, CYAN)>>
    /\ tasks = <<>>
    /\ pd_spinner = 0
    /\ err = NoOutput
    /\ main = Idle
    /\ calls = 0
    /\ last_call = ""
    /\ started = {}
    /\ HnUnused

NextSpinner ==
    \/ start(1)
    \/ \E message \in UpdateMessages : update(1, message)
    \/ \E final_message \in FinalMessages : stop(1, final_message)
    \/ JoinDone
    \/ JoinTimeout
    \/ \E t \in 1..MaxTasks : _spin(t)

SpecSpinner == InitSpinner /\ [][NextSpinner]_vars

\* the thread of a spinner is scheduled again and again, and join returns
FairSpinner ==
    /\ SpecSpinner
    /\ \A t \in 1..MaxTasks : WF_vars(_spin(t))
    /\ WF_vars(JoinDone \/ JoinTimeout)

\* one ProgressDisplay(topic, show_banner), driven by its caller in any order
Init ==
    /\ IS_TTY \in BOOLEAN
    /\ spinners = <<>>
    /\ tasks = <<>>
    /\ pd_spinner = 0
    /\ \E show_banner \in BOOLEAN : err = (IF show_banner THEN _show_banner(NoOutput) ELSE NoOutput)
    /\ main = Idle
    /\ calls = 0
    /\ last_call = ""
    /\ started = {}
    /\ HnUnused

Next ==
    \/ start_reddit
    \/ end_reddit(3)
    \/ start_reddit_enrich(1, 2)
    \/ update_reddit_enrich(2, 2)
    \/ end_reddit_enrich
    \/ start_x
    \/ end_x(5)
    \/ start_processing
    \/ end_processing
    \/ JoinDone
    \/ JoinTimeout
    \/ \E t \in 1..MaxTasks : _spin(t)

Spec == Init /\ [][Next]_vars

\* ------------------------------------------------------------------------
\* Properties of parse_hn_response and search_hn
\* ------------------------------------------------------------------------
NonEmptyStr(x) == x.t = "str" /\ x.s # <<>>
HasTitle(hit) == NonEmptyStr(hit.title) \/ NonEmptyStr(hit.story_title)
ResolvedTitle(hit) == IF NonEmptyStr(hit.title) THEN hit.title.s ELSE hit.story_title.s
KeptPositions(hits) == {p \in 1..Len(hits) : HasTitle(hits[p])}
NthKept(hits, k) ==
    CHOOSE p \in KeptPositions(hits) : Cardinality({q \in KeptPositions(hits) : q <= p}) = k
HNTag(n) == <<"H", "N">> \o Decimal(n)
ParsedNoErrorKey == hn_pc = "parsed" /\ response.error.t = "absent"

\* C1 as stated: the k-th item that parse_hn_response returns for a
\* response without an error key has id "HN<k>".
C1_IdIsOutputRank ==
    ParsedNoErrorKey =>
        \A k \in 1..Len(parsed.items) : parsed.items[k].id = HNTag(k)

\* C1 amended: the items are returned in the order of their hits, and the
\* item of the hit at position p of the hits (counting from 1, skipped hits
\* included) has id "HN<p>".
C1_IdIsHitPosition ==
    ParsedNoErrorKey =>
        \A k \in 1..Len(parsed.items) :
            /\ k <= Cardinality(KeptPositions(response.hits))
            /\ parsed.items[k].id = HNTag(NthKept(response.hits, k))
            /\ parsed.items[k].title.s = ResolvedTitle(response.hits[NthKept(response.hits, k)])

\* a skipped hit comes before the first returned item
C1_Witness ==
    /\ ParsedNoErrorKey
    /\ Len(response.hits) = 2
    /\ Len(parsed.items) = 1
    /\ ~HasTitle(response.hits[1])
    /\ parsed.items[1].id = HNTag(2)

\* C2: when every hit has a title, parse_hn_response does not raise, returns
\* an item for every hit whatever its created_at_i, and the date of an item
\* whose created_at_i is missing, no number or beyond the calendar is None.
C2_BadTimestampNeverRaises ==
    (ParsedNoErrorKey /\ \A p \in 1..Len(response.hits) : NonEmptyStr(response.hits[p].title)) =>
        /\ parsed.exc = "none"
        /\ Len(parsed.items) = Len(response.hits)
        /\ \A p \in 1..Len(response.hits) :
              response.hits[p].created_at_i.t # "int" => parsed.items[p].date = None

\* C7: parse_hn_response returns one item for every hit that has a non-empty
\* title or a non-empty story_title, and none for the others.
C7_LengthIsKeptCount ==
    ParsedNoErrorKey =>
        /\ parsed.exc = "none"
        /\ Len(parsed.items) = Cardinality(KeptPositions(response.hits))

\* C8: why_relevant of every returned item is the caption followed by the
\* first 50 characters of the item's title.
C8_CaptionOfResolvedTitle ==
    ParsedNoErrorKey =>
        \A k \in 1..Len(parsed.items) :
            parsed.items[k].why_relevant = CAPTION \o Take(parsed.items[k].title.s, CAPTION_CHARS)

\* C3: when http.get was called and failed, search_hn did not raise; it
\* returned {error: message, hits: []} after one GET and logged the error.
C3_FailedGetGivesSentinel ==
    got \in {"HTTPError", "Exception"} =>
        /\ search_exc = "none"
        /\ hn_pc \in {"searched", "parsed"}
        /\ response.error.t = "str"
        /\ response.hits = <<>>
        /\ gets = 1
        /\ Len(hn_log) = 1

C3_Witness == got = "Exception" /\ hn_pc = "searched" /\ response.error = PyStr(<<"timed out">>)

\* C9: for a response with an error key, parse_hn_response returns no item
\* and does not raise, whatever the hits are.
C9_ErrorKeyGivesNoItems ==
    (hn_pc = "parsed" /\ response.error.t # "absent") =>
        parsed.exc = "none" /\ parsed.items = <<>>

\* a response with an error key whose hits hold a hit with a title
C9_Witness ==
    /\ hn_pc = "parsed"
    /\ response.error.t # "absent"
    /\ \E p \in 1..Len(response.hits) : HasTitle(response.hits[p])

\* ------------------------------------------------------------------------
\* Properties of Spinner and ProgressDisplay
\* ------------------------------------------------------------------------
EndCalls == {"end_reddit", "end_reddit_enrich", "end_x", "end_processing"}
PhaseOf(call) ==
    CASE call = "end_reddit" -> "reddit"
      [] call = "end_reddit_enrich" -> "reddit_enrich"
      [] call = "end_x" -> "x"
      [] OTHER -> "processing"

\* the owning thread enters the method named in calls_named with this step
Enters(calls_named) == calls' = calls + 1 /\ last_call' \in calls_named

C5_UpdatePrintsOnce ==
    [][(~IS_TTY /\ Enters({"update"}))
          => /\ spinners'[1].message \in UpdateMessages
             /\ err' = Append(err, <<"wait ">> \o spinners'[1].message \o <<"\\n">>)]_vars

\* the threads of spinner s that have not ended
AliveTasks(s) == {t \in 1..Len(tasks) : tasks[t].spinner = s /\ tasks[t].pc # "done"}

\* C6: at any time at most one thread of a Spinner is alive.
C6_OneTaskAlive == \A s \in 1..Len(spinners) : Cardinality(AliveTasks(s)) <= 1

TaskStopped(t) == t <= Len(tasks) /\ ~spinners[tasks[t].spinner].running
TaskEndedOrRestarted(t) ==
    t <= Len(tasks) /\ (tasks[t].pc = "done" \/ spinners[tasks[t].spinner].running)

====
